---- MODULE Spec2Model ----
(***************************************************************************)
(* Model of the SAHMK Python client (src/sahmk/client.py).                 *)
(*                                                                         *)
(* Two surfaces are modelled, each with its own specification:             *)
(*   SpecReq : the request facade (SahmkClient._request and the methods    *)
(*             that call it, quotes() with its client-side validation);    *)
(*   Spec    : one stream() session: connect, the subscribe handshake, the *)
(*             keep-alive ping task and the receive/dispatch loop, with    *)
(*             the server and the caller as the environment.               *)
(***************************************************************************)
EXTENDS Integers, Sequences, FiniteSets, TLC

VARIABLES
    \* ---- request facade ----
    call,       \* the facade call made last: method and number of symbols
    outcome,    \* what the transport answered to it
    result,     \* what the call returned or raised
    wire,       \* HTTP requests the call put on the wire
    prevFail,   \* the SahmkError raised by the call before (class and pair)
    \* ---- streaming session ----
    symbols,    \* stream(symbols, ...)
    on_quote,   \* whether an on_quote callback was passed
    on_error,   \* whether an on_error callback was passed
    pc,         \* where the stream() coroutine stands
    i,          \* the subscribe loop's index (line 303)
    exc,        \* the exception stream() ended with, "none" otherwise
    conn,       \* the WebSocket connection
    sent,       \* subscribe messages sent, in order (each a symbol list)
    srv,        \* the server: hello sent, subscribes replied to, messages emitted
    inbox,      \* server messages in flight to the client, in order
    hsRecv,     \* messages the handshake's ws.recv() calls took, in order
    received,   \* messages the `async for` loop took, in order
    handled,    \* handler invocations started, in order
    running,    \* handler invocations in progress
    finished,   \* handler invocations completed, in order
    ping_task,  \* the keep-alive task
    pings       \* keep-alive pings sent

reqVars == <<call, outcome, result, wire, prevFail>>
wsVars == <<symbols, on_quote, on_error, pc, i, exc, conn, sent, srv, inbox,
            hsRecv, received, handled, running, finished, ping_task, pings>>
vars == <<reqVars, wsVars>>

(***************************************************************************)
(* Bounds of the model and constants of the program.                       *)
(***************************************************************************)
MaxQuoteSyms == 51      \* quotes() is called with up to MaxQuoteSyms symbols
MaxBatches == 1         \* stream() is called with up to MaxBatches full batches, one symbol more or less
MaxEmit == 2            \* unsolicited messages the server pushes per session
MaxPings == 1           \* keep-alive pings sent per session

QuotesLimit == 50       \* client.py:114
BatchSize == 20         \* client.py:303
RateLimited == 429      \* client.py:61
OK == 200               \* client.py:69

\* Python's None, for status_code (an int otherwise) and error_code.
None == -1
NoCode == "None"

Min(a, b) == IF a <= b THEN a ELSE b

(***************************************************************************)
(* Request facade.                                                         *)
(***************************************************************************)

\* HTTP statuses the transport may answer with.
Statuses == {200, 201, 299, 304, 404, 429, 500}

\* Response bodies.  top: what response.json() yields ("text": not JSON, it
\* raises ValueError); err: the "error" member of a JSON object; code and
\* message: the members of an "error" object ("absent" when missing).
Bodies ==
    {[top |-> t, err |-> "absent", code |-> "absent", message |-> "absent"] :
        t \in {"text", "array", "object"}}
    \cup
    {[top |-> "object", err |-> e, code |-> "absent", message |-> "absent"] :
        e \in {"string", "null"}}
    \cup
    {[top |-> "object", err |-> "object", code |-> c, message |-> m] :
        c \in {"absent", "NOT_FOUND"}, m \in {"absent", "provider message"}}

NoBody == [top |-> "none", err |-> "absent", code |-> "absent", message |-> "absent"]

\* What session.request() does: raises requests.RequestException or returns a response.
Outcomes ==
    {[kind |-> "network", status |-> None, body |-> NoBody]}
    \cup {[kind |-> "response", status |-> s, body |-> b] : s \in Statuses, b \in Bodies}

NoOutcome == [kind |-> "none", status |-> None, body |-> NoBody]

\* SahmkError(message, status_code, error_code) raised.
Raise(fmt, detail, status, code) ==
    [kind |-> "raise", exc |-> "SahmkError", fmt |-> fmt, detail |-> detail,
     status_code |-> status, error_code |-> code, value |-> NoBody]

\* Another exception escaping the call.
Escape(e) ==
    [kind |-> "raise", exc |-> e, fmt |-> "", detail |-> "",
     status_code |-> None, error_code |-> NoCode, value |-> NoBody]

Return(body) ==
    [kind |-> "return", exc |-> "none", fmt |-> "", detail |-> "",
     status_code |-> None, error_code |-> NoCode, value |-> body]

NoResult ==
    [kind |-> "none", exc |-> "none", fmt |-> "", detail |-> "",
     status_code |-> None, error_code |-> NoCode, value |-> NoBody]

\* The branch for a status that is neither 429 nor 200 (lines 69-83).
ApiError(status, body) ==
    IF body.top = "text"
    THEN \* response.json() raises ValueError, caught on line 75
         Raise("API error", "response.text", status, "UNKNOWN")
    ELSE IF body.top # "object"
    THEN \* body.get on a list, str, number or None
         Escape("AttributeError")
    ELSE IF body.err = "absent"
    THEN \* err = {} : both defaults
         Raise("API error", "response.text", status, "UNKNOWN")
    ELSE IF body.err # "object"
    THEN \* err.get on a str or None
         Escape("AttributeError")
    ELSE Raise("API error",
               IF body.message = "absent" THEN "response.text" ELSE body.message,
               status,
               IF body.code = "absent" THEN "UNKNOWN" ELSE body.code)

\* Faulty variant: the 429 branch is gone, 429 is handled like any other error status.
HandleResponseNo429(status, body) ==
    IF status # OK
    THEN ApiError(status, body)
    ELSE IF body.top = "text"
    THEN Escape("ValueError")
    ELSE Return(body)

\* Lines 61-85: what _request does with the response it got.
HandleResponse(status, body) ==
    IF status = RateLimited
    THEN Raise("Rate limit exceeded", "", RateLimited, "RATE_LIMIT")
    ELSE IF status # OK
    THEN ApiError(status, body)
    ELSE IF body.top = "text"
    THEN Escape("ValueError")
    ELSE Return(body)

\* Faulty variant: a rate-limited or failed request is sent once more.
RequestsIssuedRetry(o) ==
    IF o.kind = "network" \/ o.status = RateLimited THEN <<o, o>> ELSE <<o>>

\* The session.request() calls of one _request call, in order (lines 54-59:
\* one call, no loop around it).
RequestsIssued(o) == <<o>>

\* _request (lines 51-85): the result, and the number of HTTP requests issued.
_request(o) ==
    LET reqs == RequestsIssued(o)
        last == reqs[Len(reqs)]
    IN  [result |-> IF last.kind = "network"
                    THEN Raise("Request failed", "", None, NoCode)
                    ELSE HandleResponse(last.status, last.body),
         wire |-> Len(reqs)]

\* quotes(): line 114.
TooManySymbols(n) == n > QuotesLimit

\* The class of a raised SahmkError, for telling failures apart.
FailClass(o, r) ==
    IF r.kind # "raise" \/ r.exc # "SahmkError" THEN "none"
    ELSE IF o.kind = "none" THEN "validation"
    ELSE IF o.kind = "network" THEN "network"
    ELSE IF o.status = RateLimited THEN "rate_limit"
    ELSE "api"

Failure(o, r) ==
    [class |-> FailClass(o, r), status_code |-> r.status_code, error_code |-> r.error_code]

NoFailure == [class |-> "none", status_code |-> None, error_code |-> NoCode]

\* The numbers of symbols quotes() is called with: few, and around the limit.
QuoteSizes == {0, 1} \cup ((QuotesLimit - 1)..MaxQuoteSyms)

InitFacade ==
    /\ call = [method |-> "none", nsyms |-> 0]
    /\ outcome = NoOutcome
    /\ result = NoResult
    /\ wire = 0
    /\ prevFail = NoFailure

\* quote(), historical(), market_summary(), gainers(), losers(), volume_leaders(),
\* value_leaders(), sectors(), company(), financials(), dividends(), events():
\* each builds its endpoint and parameters and returns self._request(...).
Call(o) ==
    /\ call' = [method |-> "plain", nsyms |-> 0]
    /\ outcome' = o
    /\ result' = _request(o).result
    /\ wire' = _request(o).wire
    /\ prevFail' = Failure(outcome, result)

\* quotes(symbols) with n symbols (lines 104-118).
quotes(n, o) ==
    /\ call' = [method |-> "quotes", nsyms |-> n]
    /\ prevFail' = Failure(outcome, result)
    /\ IF TooManySymbols(n)
       THEN /\ outcome' = NoOutcome
            /\ result' = Raise("Maximum 50 symbols per batch request", "", None, NoCode)
            /\ wire' = 0
       ELSE /\ outcome' = o
            /\ result' = _request(o).result
            /\ wire' = _request(o).wire

(***************************************************************************)
(* Streaming session.                                                      *)
(***************************************************************************)

\* A server message: id numbers the messages of the connection in the order
\* the server emitted them, re is the subscribe it replies to (0 for the
\* hello and for pushed messages).
Msg(id, type, re) == [id |-> id, type |-> type, re |-> re]

NextId == Len(hsRecv) + Len(received) + Len(inbox) + 1

\* Faulty variant: the slice is one short.
BatchShort(syms, k) == SubSeq(syms, k + 1, Min(k + BatchSize - 1, Len(syms)))

\* symbols[i : i + 20] (line 304).
Batch(syms, k) == SubSeq(syms, k + 1, Min(k + BatchSize, Len(syms)))

\* msg.get("type") == "error" (lines 300, 309).
IsError(m) == m.type = "error"

\* Faulty variant: any message goes to on_quote when on_error is missing.
HandlerForLoose(type, q, e) ==
    IF type = "error" /\ e THEN "on_error"
    ELSE IF q THEN "on_quote"
    ELSE "none"

\* Lines 329-332: the callback a message of this type is given to.
HandlerFor(type, q, e) ==
    IF type = "quote" /\ q THEN "on_quote"
    ELSE IF type = "error" /\ e THEN "on_error"
    ELSE "none"

\* Faulty variant: the callback is started and not awaited.
AfterDispatchNoAwait(h) == "loop"

\* `await on_quote(data)`: the loop stands in the callback until it completes.
AfterDispatch(h) == IF h = "none" THEN "loop" ELSE "handler"

\* Faulty variant: cancel() does nothing.
cancelNoop(t) == t

\* ping_task.cancel() (line 334): a task that has ended stays as it is.
cancel(t) == IF t \in {"sleeping", "sending"} THEN "cancelled" ELSE t

\* Leaving `async with websockets.connect(...)`: the client closes the connection.
Closed(c) == IF c = "open" THEN "client_closed" ELSE c

ServerClosed == conn \in {"server_closed_ok", "server_closed_error"}

Symbols(n) == [k \in 1..n |-> k]

\* The lengths of the symbol lists stream() is called with: around every
\* multiple of the batch size, where the slicing changes its number of batches.
StreamSizes ==
    {n \in 0..(MaxBatches * BatchSize + 1) :
        \E k \in 0..MaxBatches, d \in {-1, 0, 1} : n = k * BatchSize + d}

Init ==
    /\ InitFacade
    /\ symbols \in {Symbols(n) : n \in StreamSizes}
    /\ on_quote \in BOOLEAN
    /\ on_error \in BOOLEAN
    /\ pc = "start"
    /\ i = 0
    /\ exc = "none"
    /\ conn = "none"
    /\ sent = <<>>
    /\ srv = [hello |-> FALSE, replied |-> 0, acked |-> 0, pushed |-> 0]
    /\ inbox = <<>>
    /\ hsRecv = <<>>
    /\ received = <<>>
    /\ handled = <<>>
    /\ running = {}
    /\ finished = <<>>
    /\ ping_task = "none"
    /\ pings = 0

\* stream() ends with exception e before ping_task exists, or after the
\* `finally` has run (the caller passes the task's new state).
End(e, task) ==
    /\ pc' = IF e = "none" THEN "returned" ELSE "raised"
    /\ exc' = e
    /\ conn' = Closed(conn)
    /\ ping_task' = task
    /\ running' = {}

\* Past a handshake message that is no error: the next batch, or, the `for`
\* loop being over, create_task(_ping_loop()) and the receive loop (no await
\* in between).
Proceed(k) ==
    /\ i' = k
    /\ IF k < Len(symbols)
       THEN pc' = "send" /\ ping_task' = ping_task
       ELSE pc' = "loop" /\ ping_task' = "sleeping"
    /\ UNCHANGED <<exc, conn, running>>

\* Lines 286-298: import websockets, connect.
Connect(how) ==
    /\ pc = "start"
    /\ IF how = "ok"
       THEN /\ pc' = "hello"
            /\ conn' = "open"
            /\ UNCHANGED <<exc, ping_task, running>>
       ELSE End(IF how = "no_websockets" THEN "SahmkError" ELSE "ConnectError", ping_task)
    /\ UNCHANGED <<symbols, on_quote, on_error, i, sent, srv, inbox, hsRecv,
                   received, handled, finished, pings>>

\* Lines 299-301: the server's first message.
RecvHello ==
    /\ pc = "hello"
    /\ inbox # <<>>
    /\ LET m == Head(inbox) IN
       /\ inbox' = Tail(inbox)
       /\ hsRecv' = Append(hsRecv, m)
       /\ IF m.type = "malformed"
          THEN End("ValueError", ping_task) /\ i' = i
          ELSE IF IsError(m)
          THEN End("SahmkError", ping_task) /\ i' = i
          ELSE Proceed(0)
    /\ UNCHANGED <<symbols, on_quote, on_error, sent, srv, received, handled,
                   finished, pings>>

\* Lines 303-307: send the batch at i.
Subscribe ==
    /\ pc = "send"
    /\ IF conn = "open"
       THEN /\ sent' = Append(sent, Batch(symbols, i))
            /\ pc' = "ack"
            /\ UNCHANGED <<exc, conn, ping_task, running>>
       ELSE /\ End("ConnectionClosed", ping_task)
            /\ sent' = sent
    /\ UNCHANGED <<symbols, on_quote, on_error, i, srv, inbox, hsRecv, received,
                   handled, finished, pings>>

\* Lines 308-312: the next message is taken as the reply to the batch.
RecvAck ==
    /\ pc = "ack"
    /\ inbox # <<>>
    /\ LET m == Head(inbox) IN
       /\ inbox' = Tail(inbox)
       /\ hsRecv' = Append(hsRecv, m)
       /\ IF m.type = "malformed"
          THEN End("ValueError", ping_task) /\ i' = i
          ELSE IF IsError(m)
          THEN End("SahmkError", ping_task) /\ i' = i
          ELSE Proceed(i + BatchSize)
    /\ UNCHANGED <<symbols, on_quote, on_error, sent, srv, received, handled,
                   finished, pings>>

\* ws.recv() in the handshake on a connection the server has closed.
RecvOnClosed ==
    /\ pc \in {"hello", "ack"}
    /\ inbox = <<>>
    /\ ServerClosed
    /\ End("ConnectionClosed", ping_task)
    /\ UNCHANGED <<symbols, on_quote, on_error, i, sent, srv, inbox, hsRecv,
                   received, handled, finished, pings>>

\* Lines 325-332: the loop takes the next message and dispatches it.
RecvLoop ==
    /\ pc = "loop"
    /\ inbox # <<>>
    /\ LET m == Head(inbox)
           h == HandlerFor(m.type, on_quote, on_error)
       IN
       /\ inbox' = Tail(inbox)
       /\ received' = Append(received, m)
       /\ IF m.type = "malformed"
          THEN /\ End("ValueError", cancel(ping_task))
               /\ UNCHANGED handled
          ELSE /\ pc' = AfterDispatch(h)
               /\ IF h = "none"
                  THEN UNCHANGED <<handled, running>>
                  ELSE /\ handled' = Append(handled, [handler |-> h, id |-> m.id])
                       /\ running' = running \cup {[handler |-> h, id |-> m.id]}
               /\ UNCHANGED <<exc, conn, ping_task>>
    /\ UNCHANGED <<symbols, on_quote, on_error, i, sent, srv, hsRecv, finished, pings>>

\* The callback in progress completes and the loop resumes.
HandlerReturn ==
    /\ pc \in {"handler", "loop"}
    /\ \E inv \in running :
         /\ running' = running \ {inv}
         /\ finished' = Append(finished, inv)
    /\ pc' = "loop"
    /\ UNCHANGED <<symbols, on_quote, on_error, i, exc, conn, sent, srv, inbox,
                   hsRecv, received, handled, ping_task, pings>>

\* The awaited callback raises: the `finally` runs and the exception leaves stream().
HandlerRaise ==
    /\ pc = "handler"
    /\ End("HandlerError", cancel(ping_task))
    /\ UNCHANGED <<symbols, on_quote, on_error, i, sent, srv, inbox, hsRecv,
                   received, handled, finished, pings>>

\* The `async for` ends: every message was taken and the server has closed.
LoopEnd ==
    /\ pc = "loop"
    /\ inbox = <<>>
    /\ ServerClosed
    /\ End(IF conn = "server_closed_ok" THEN "none" ELSE "ConnectionClosedError",
           cancel(ping_task))
    /\ UNCHANGED <<symbols, on_quote, on_error, i, sent, srv, inbox, hsRecv,
                   received, handled, finished, pings>>

\* The caller cancels the coroutine: CancelledError is raised at the await
\* stream() stands in; inside the `try` (lines 324-334) the `finally` runs.
CallerCancel ==
    /\ pc \in {"start", "hello", "send", "ack", "loop", "handler"}
    /\ End("CancelledError",
           IF pc \in {"loop", "handler"} THEN cancel(ping_task) ELSE ping_task)
    /\ UNCHANGED <<symbols, on_quote, on_error, i, sent, srv, inbox, hsRecv,
                   received, handled, finished, pings>>

\* _ping_loop (lines 314-320): the sleep is over and ws.send is called; on a
\* closed connection it raises and the loop breaks.
PingWake ==
    /\ ping_task = "sleeping"
    /\ IF conn = "open"
       THEN /\ pings < MaxPings
            /\ pings' = pings + 1
            /\ ping_task' = "sending"
       ELSE /\ pings' = pings
            /\ ping_task' = "exited"
    /\ UNCHANGED <<symbols, on_quote, on_error, pc, i, exc, conn, sent, srv, inbox,
                   hsRecv, received, handled, running, finished>>

\* _ping_loop: ws.send has completed, back to the sleep.
PingSent ==
    /\ ping_task = "sending"
    /\ ping_task' = "sleeping"
    /\ UNCHANGED <<symbols, on_quote, on_error, pc, i, exc, conn, sent, srv, inbox,
                   hsRecv, received, handled, running, finished, pings>>

\* ---- the server (the environment) ----

\* The first message on a new connection.
ServerHello(t) ==
    /\ conn = "open"
    /\ ~srv.hello
    /\ srv' = [srv EXCEPT !.hello = TRUE]
    /\ inbox' = Append(inbox, Msg(NextId, t, 0))
    /\ UNCHANGED <<symbols, on_quote, on_error, pc, i, exc, conn, sent, hsRecv,
                   received, handled, running, finished, ping_task, pings>>

\* The reply to the oldest subscribe not replied to yet.
ServerReply(t) ==
    /\ conn = "open"
    /\ srv.hello
    /\ srv.replied < Len(sent)
    /\ srv' = [srv EXCEPT !.replied = @ + 1,
                          !.acked = IF t = "subscribed" THEN @ + 1 ELSE @]
    /\ inbox' = Append(inbox, Msg(NextId, t, srv.replied + 1))
    /\ UNCHANGED <<symbols, on_quote, on_error, pc, i, exc, conn, sent, hsRecv,
                   received, handled, running, finished, ping_task, pings>>

\* A pushed message, once the server has accepted a subscribe: a quote update
\* for a subscribed symbol, an error, a ping, or a frame that is no JSON.
ServerPush(t) ==
    /\ conn = "open"
    /\ srv.acked > 0
    /\ srv.pushed < MaxEmit
    /\ srv' = [srv EXCEPT !.pushed = @ + 1]
    /\ inbox' = Append(inbox, Msg(NextId, t, 0))
    /\ UNCHANGED <<symbols, on_quote, on_error, pc, i, exc, conn, sent, hsRecv,
                   received, handled, running, finished, ping_task, pings>>

\* The server closes the connection, normally or not.
ServerClose(how) ==
    /\ conn = "open"
    /\ conn' = how
    /\ UNCHANGED <<symbols, on_quote, on_error, pc, i, exc, sent, srv, inbox, hsRecv,
                   received, handled, running, finished, ping_task, pings>>

Next ==
    \/ \E how \in {"ok", "no_websockets", "connect_failed"} : Connect(how) /\ UNCHANGED reqVars
    \/ RecvHello /\ UNCHANGED reqVars
    \/ Subscribe /\ UNCHANGED reqVars
    \/ RecvAck /\ UNCHANGED reqVars
    \/ RecvOnClosed /\ UNCHANGED reqVars
    \/ RecvLoop /\ UNCHANGED reqVars
    \/ HandlerReturn /\ UNCHANGED reqVars
    \/ HandlerRaise /\ UNCHANGED reqVars
    \/ LoopEnd /\ UNCHANGED reqVars
    \/ CallerCancel /\ UNCHANGED reqVars
    \/ PingWake /\ UNCHANGED reqVars
    \/ PingSent /\ UNCHANGED reqVars
    \/ \E t \in {"connected", "error"} : ServerHello(t) /\ UNCHANGED reqVars
    \/ \E t \in {"subscribed", "error"} : ServerReply(t) /\ UNCHANGED reqVars
    \/ \E t \in {"quote", "error", "ping", "malformed"} : ServerPush(t) /\ UNCHANGED reqVars
    \/ \E how \in {"server_closed_ok", "server_closed_error"} : ServerClose(how) /\ UNCHANGED reqVars

Spec == Init /\ [][Next]_vars

\* The request facade alone: the streaming variables stay as constructed.
InitSession ==
    /\ symbols = <<>>
    /\ on_quote = FALSE
    /\ on_error = FALSE
    /\ pc = "start"
    /\ i = 0
    /\ exc = "none"
    /\ conn = "none"
    /\ sent = <<>>
    /\ srv = [hello |-> FALSE, replied |-> 0, acked |-> 0, pushed |-> 0]
    /\ inbox = <<>>
    /\ hsRecv = <<>>
    /\ received = <<>>
    /\ handled = <<>>
    /\ running = {}
    /\ finished = <<>>
    /\ ping_task = "none"
    /\ pings = 0

NextReq ==
    \/ \E o \in Outcomes : Call(o) /\ UNCHANGED wsVars
    \/ \E n \in QuoteSizes, o \in Outcomes : quotes(n, o) /\ UNCHANGED wsVars

InitReq == InitFacade /\ InitSession

SpecReq == InitReq /\ [][NextReq]_vars

(***************************************************************************)
(* Properties of the request facade (checked under SpecReq).               *)
(***************************************************************************)

Called == call.method # "none"
Responded == outcome.kind = "response"
RaisedSahmkError == result.kind = "raise" /\ result.exc = "SahmkError"
HasProviderCode ==
    outcome.body.top = "object" /\ outcome.body.err = "object" /\ outcome.body.code # "absent"
HasProviderMessage ==
    outcome.body.top = "object" /\ outcome.body.err = "object" /\ outcome.body.message # "absent"

\* C5: _request raises SahmkError exactly for the non-2xx responses: a status
\* outside 200..299 raises SahmkError with status_code the response status and
\* with the provider's error.code and error.message when the body has them; a
\* 2xx status returns the parsed body.
C5_ErrorExactlyForNon2xx ==
    Responded =>
        IF outcome.status \in 200..299
        THEN result.kind = "return" /\ result.value = outcome.body
        ELSE /\ RaisedSahmkError
             /\ result.status_code = outcome.status
             /\ HasProviderCode => result.error_code = outcome.body.code
             /\ HasProviderMessage => result.detail = outcome.body.message

\* C6: whatever the transport does, a facade call returns the parsed body or
\* raises SahmkError; no other exception type escapes.
C6_OnlySahmkErrorEscapes ==
    Called => result.kind = "return" \/ RaisedSahmkError

LastFail == Failure(outcome, result)
Pair(f) == <<f.status_code, f.error_code>>

\* A 429 response yields (429, RATE_LIMIT) whatever its body.
RateLimitPair ==
    (Responded /\ outcome.status = RateLimited) =>
        RaisedSahmkError /\ Pair(LastFail) = <<RateLimited, "RATE_LIMIT">>

\* Of two consecutive failures, one a network failure and the other of a
\* class in `others`, the pairs differ.
NetworkPairApartFrom(others) ==
    /\ (prevFail.class = "network" /\ LastFail.class \in others)
           => Pair(prevFail) # Pair(LastFail)
    /\ (LastFail.class = "network" /\ prevFail.class \in others)
           => Pair(prevFail) # Pair(LastFail)

\* C7 as stated: 429 always yields (429, RATE_LIMIT), and the pair of a network
\* failure is the pair of no rate-limit error, no other API error and no
\* client-side validation error.
C7_Original ==
    /\ RateLimitPair
    /\ NetworkPairApartFrom({"rate_limit", "api", "validation"})

\* C7 as amended: 429 always yields (429, RATE_LIMIT); a network failure
\* yields (None, None), which no rate-limit error and no other API error
\* yields; a client-side validation error yields (None, None) too.
C7_FailureClassesByPair ==
    /\ RateLimitPair
    /\ NetworkPairApartFrom({"rate_limit", "api"})
    /\ LastFail.class \in {"network", "validation"} => Pair(LastFail) = <<None, NoCode>>
    /\ LastFail.class = "api" =>
           LastFail.status_code = outcome.status /\ outcome.status # RateLimited

\* A network failure followed by a 429 whose body names another error code.
C7_Witness ==
    /\ prevFail.class = "network"
    /\ LastFail.class = "rate_limit"
    /\ HasProviderCode

\* C8: a facade call issues at most one HTTP request whatever the outcome,
\* exactly one when its arguments pass the client-side validation, and none
\* when quotes() is given more than 50 symbols, which raises SahmkError.
C8_NoRetry ==
    Called =>
        /\ wire <= 1
        /\ IF call.method = "quotes" /\ call.nsyms > 50
           THEN wire = 0 /\ RaisedSahmkError /\ outcome = NoOutcome
           ELSE wire = 1

\* A rate-limited call, then quotes() with too many symbols.
C8_Witness ==
    /\ prevFail.class = "rate_limit"
    /\ call.method = "quotes"
    /\ call.nsyms > 50
    /\ wire = 0

(***************************************************************************)
(* Properties of the streaming session (checked under Spec).               *)
(***************************************************************************)

RECURSIVE Concat(_)
Concat(ss) == IF ss = <<>> THEN <<>> ELSE Head(ss) \o Concat(Tail(ss))

CeilDiv(a, b) == (a + b - 1) \div b

Ended == pc \in {"returned", "raised"}

\* Line 322 was reached: the `for` loop of the handshake ran to its end.
HandshakeDone == ping_task # "none"

\* C1: every subscribe message carries at most 20 symbols, the messages sent
\* so far concatenate to a prefix of the input, and once the handshake is
\* through without error there are ceil(n/20) of them and they concatenate to
\* the input list.
C1_Batching ==
    /\ \A k \in 1..Len(sent) : Len(sent[k]) <= 20
    /\ Len(Concat(sent)) <= Len(symbols)
    /\ Concat(sent) = SubSeq(symbols, 1, Len(Concat(sent)))
    /\ HandshakeDone =>
           /\ Concat(sent) = symbols
           /\ Len(sent) = CeilDiv(Len(symbols), 20)

\* A list of 21 symbols subscribed in two batches.
C1_Witness ==
    /\ HandshakeDone
    /\ Len(symbols) = 21
    /\ Len(sent) = 2
    /\ Len(sent[2]) = 1

Invocations(m, h) ==
    {k \in 1..Len(handled) : handled[k].id = m.id /\ handled[k].handler = h}

C2_Dispatch ==
    /\ \A j \in 1..Len(received) :
         LET m == received[j] IN
         /\ Cardinality(Invocations(m, "on_quote")) =
                (IF m.type = "quote" /\ on_quote THEN 1 ELSE 0)
         /\ Cardinality(Invocations(m, "on_error")) =
                (IF m.type = "error" /\ on_error THEN 1 ELSE 0)
    /\ \A k \in 1..Len(handled) : \E j \in 1..Len(received) : received[j].id = handled[k].id

C2_SkipKeepsSession ==
    (/\ Len(received') = Len(received) + 1
     /\ received'[Len(received')].type # "malformed"
     /\ Len(handled') = Len(handled))
        => (pc' = "loop" /\ exc' = "none" /\ conn' = conn)

\* C2: past the handshake every message the loop takes is given to the
\* callback registered for its type exactly once (quote to on_quote, error to
\* on_error; no callback can be registered for ping), never to the callback of
\* another type, and a message with no callback for its type is skipped and
\* the loop goes on.
C2_DispatchByType == []C2_Dispatch /\ [][C2_SkipKeepsSession]_vars

\* A ping was skipped and a quote went to on_quote in the same session.
C2_Witness ==
    /\ on_quote
    /\ Len(handled) = 1
    /\ \E j, k \in 1..Len(received) :
         /\ j < k
         /\ received[j].type = "ping"
         /\ received[k].type = "quote"
         /\ handled[1] = [handler |-> "on_quote", id |-> received[k].id]

\* C3: when stream() has ended, however it ended, the keep-alive task was
\* never created, or has been cancelled, or has ended by itself.
C3_PingTaskCancelled ==
    Ended => ping_task \in {"none", "cancelled", "exited"}

\* The caller cancelled the session after a ping had been sent.
C3_Witness ==
    /\ Ended
    /\ exc = "CancelledError"
    /\ ping_task = "cancelled"
    /\ pings > 0

Position(id) == CHOOSE j \in 1..Len(received) : received[j].id = id

C4_OneAtATime ==
    /\ Cardinality(running) <= 1
    /\ Len(finished) <= Len(handled)
    /\ Len(handled) - Len(finished) <= 1
    /\ finished = SubSeq(handled, 1, Len(finished))
    /\ \A inv \in running : inv = handled[Len(handled)]
    /\ \A a, b \in 1..Len(handled) : a < b => Position(handled[a].id) < Position(handled[b].id)

C4_NoReceiveInHandler == (received' # received) => running = {}

\* C4: callbacks run one at a time and in the order their messages were
\* received; the loop takes no message while a callback is in progress, also
\* while the keep-alive task is sending.
C4_SequentialDispatch == []C4_OneAtATime /\ [][C4_NoReceiveInHandler]_vars

\* The second callback of a session in progress while the keep-alive task sends.
C4_Witness ==
    /\ Len(handled) = 2
    /\ Len(finished) = 1
    /\ running # {}
    /\ ping_task = "sending"

Taken == hsRecv \o received
TakenIds == {Taken[j].id : j \in 1..Len(Taken)}
Emitted == Taken \o inbox

\* C9: no subscribe is sent before the server's first message is received;
\* batch k+1 is sent only after the server's reply to batch k is received;
\* once the first message or a reply of type error is received, stream() has
\* raised SahmkError, with no subscribe sent after it, no callback invoked
\* and no ping sent.
C9_StopAndWait ==
    /\ Len(sent) >= 1 => Len(hsRecv) >= 1
    /\ \A k \in 1..(Len(sent) - 1) :
         \E j \in 1..Len(Taken) : Taken[j].re = k
    /\ \A j \in 1..Len(Taken) :
         (Taken[j].type = "error" /\ (j = 1 \/ Taken[j].re > 0)) =>
             /\ pc = "raised"
             /\ exc = "SahmkError"
             /\ Len(sent) = Taken[j].re
             /\ handled = <<>>
             /\ pings = 0

\* C10: with on_quote registered, when the session ends normally every quote
\* the server emitted on the connection has been delivered to on_quote.
C10_NoQuoteLost ==
    (pc = "returned" /\ on_quote) =>
        \A j \in 1..Len(Emitted) :
            Emitted[j].type = "quote" =>
                \E k \in 1..Len(finished) :
                    finished[k] = [handler |-> "on_quote", id |-> Emitted[j].id]

====
